---- MODULE Spec2Model ----
(***************************************************************************)
(* Model of scripts/music/export_structures.py: the permutation analysis   *)
(* of change-ringing peals (cycles, parity, transitions between rows), the *)
(* aggregation of transitions into permutation families and the symmetric  *)
(* group catalog.                                                          *)
(*                                                                         *)
(* Python lists are sequences indexed from 0: At(s, i) reads s[i].  Python *)
(* strings are sequences of one-character strings, so that str(), int()   *)
(* and string comparison are computed and not assumed.  A raised exception *)
(* is a result record whose error field names it.                          *)
(***************************************************************************)
EXTENDS Integers, Sequences, FiniteSets, TLC

VARIABLES pc, analyzer, classifier, library, aggregator, cataloger

vars == <<pc, analyzer, classifier, library, aggregator, cataloger>>

\* The value of a component that takes no part in a specification.
Idle == [idle |-> TRUE]

(***************************************************************************)
(* Bounds of the model.                                                    *)
(***************************************************************************)
\* Longest sequence handed to the single-permutation functions.
MaxPermLen == 4
\* Largest stage of the rows that are permutations.
MaxStage == 4
\* Longest row among the rows that need not be permutations.
MaxRowLen == 3
\* Largest stage handed to build_symmetric_group_catalog.
MaxCatalogStage == 4
\* Longest list of stages handed to build_symmetric_group_catalog.
MaxStageList == 2
\* Most rows of a peal file.
MaxRows == 3
\* Largest stage of the peal files whose rows are all permutations.
MaxPealStage == 3
\* Longest row of the peal files whose rows are arbitrary strings.
MaxTextLen == 2
\* Most structures handed to build_permutation_families.
MaxStructures == 2

(***************************************************************************)
(* Program constants.                                                      *)
(***************************************************************************)
\* The default of samples_per_cycle.
DefaultSamplesPerCycle == 3

(***************************************************************************)
(* Python primitives.                                                      *)
(***************************************************************************)
At(s, i) == s[i + 1]

RECURSIVE RangeList(_)
\* list(range(n))
RangeList(n) == IF n <= 0 THEN <<>> ELSE Append(RangeList(n - 1), n - 1)

RECURSIVE Repeat(_, _)
\* [x] * n
Repeat(x, n) == IF n <= 0 THEN <<>> ELSE Append(Repeat(x, n - 1), x)

Min2(a, b) == IF a < b THEN a ELSE b

Max2(a, b) == IF a < b THEN b ELSE a

Abs(x) == IF x < 0 THEN 0 - x ELSE x

DigitChars == <<"0", "1", "2", "3", "4", "5", "6", "7", "8", "9">>

IsDigitChar(c) == \E d \in 1..10 : DigitChars[d] = c

\* int(char) of a decimal digit character
CharToInt(c) == (CHOOSE d \in 1..10 : DigitChars[d] = c) - 1

RECURSIVE NatToStr(_)
\* str(n) for n >= 0
NatToStr(n) ==
    IF n < 10 THEN <<DigitChars[n + 1]>>
    ELSE NatToStr(n \div 10) \o <<DigitChars[(n % 10) + 1]>>

\* str(n) for an integer
IntToStr(n) == IF n < 0 THEN <<"-">> \o NatToStr(0 - n) ELSE NatToStr(n)

RECURSIVE JoinStr(_, _)
\* sep.join(parts)
JoinStr(sep, parts) ==
    IF Len(parts) = 0 THEN <<>>
    ELSE IF Len(parts) = 1 THEN parts[1]
    ELSE parts[1] \o sep \o JoinStr(sep, Tail(parts))

\* The characters of the strings the program compares, in code point order.
CodePointOrder ==
    <<"-", "0", "1", "2", "3", "4", "5", "6", "7", "8", "9", "_",
      "a", "b", "c", "d", "e", "f", "g", "h", "i", "j", "k", "l", "m",
      "n", "o", "p", "q", "r", "s", "t", "u", "v", "w", "x", "y", "z">>

Ord(c) == CHOOSE k \in 1..Len(CodePointOrder) : CodePointOrder[k] = c

RECURSIVE StrLess(_, _)
\* a < b for Python strings
StrLess(a, b) ==
    IF Len(b) = 0 THEN FALSE
    ELSE IF Len(a) = 0 THEN TRUE
    ELSE IF Ord(a[1]) # Ord(b[1]) THEN Ord(a[1]) < Ord(b[1])
    ELSE StrLess(Tail(a), Tail(b))

RECURSIVE InsertStr(_, _)
InsertStr(x, s) ==
    IF Len(s) = 0 THEN <<x>>
    ELSE IF StrLess(x, s[1]) THEN <<x>> \o s
    ELSE <<s[1]>> \o InsertStr(x, Tail(s))

RECURSIVE SortedStrs(_)
\* sorted(S) of a set of strings
SortedStrs(S) ==
    IF S = {} THEN <<>>
    ELSE LET x == CHOOSE y \in S : TRUE IN InsertStr(x, SortedStrs(S \ {x}))

RECURSIVE SortedInts(_)
\* sorted(S) of a set of integers
SortedInts(S) ==
    IF S = {} THEN <<>>
    ELSE LET x == CHOOSE y \in S : \A z \in S : y <= z IN <<x>> \o SortedInts(S \ {x})

RECURSIVE Factorial(_)
\* math.factorial(n)
Factorial(n) == IF n <= 1 THEN 1 ELSE n * Factorial(n - 1)

\* list(reversed(s))
Reversed(s) == [i \in 1..Len(s) |-> s[Len(s) + 1 - i]]

RECURSIVE InsertDesc(_, _)
InsertDesc(x, s) ==
    IF Len(s) = 0 THEN <<x>>
    ELSE IF x > s[1] THEN <<x>> \o s
    ELSE <<s[1]>> \o InsertDesc(x, Tail(s))

RECURSIVE SortedDesc(_)
\* sorted(s, reverse=True) of integers
SortedDesc(s) ==
    IF Len(s) = 0 THEN <<>> ELSE InsertDesc(s[Len(s)], SortedDesc(SubSeq(s, 1, Len(s) - 1)))

\* A dict, Counter or defaultdict is the sequence of its items
\* [key, value] in insertion order, as Python keeps them.
DictKeys(d) == {d[i].key : i \in 1..Len(d)}

DictIndex(d, k) == CHOOSE i \in 1..Len(d) : d[i].key = k

\* d[k] for a key of d
DictGet(d, k) == d[DictIndex(d, k)].value

\* The items of d as a set of <<key, value>> pairs.
DictItems(d) == {<<d[i].key, d[i].value>> : i \in 1..Len(d)}

\* collections.Counter: c[k] += v
CounterAdd(c, k, v) ==
    IF k \in DictKeys(c)
    THEN [c EXCEPT ![DictIndex(c, k)].value = @ + v]
    ELSE Append(c, [key |-> k, value |-> v])

\* Counter(): the two parities are not keys from the start.
ParityCounterEmpty == <<>>

\* Counter({"even": 0, "odd": 0})
ParityCounter == <<[key |-> "even", value |-> 0], [key |-> "odd", value |-> 0]>>

\* Counter(): the three directions are not keys from the start.
MovementCounterEmpty == <<>>

\* Counter({"up": 0, "down": 0, "stay": 0})
MovementCounter ==
    <<[key |-> "up", value |-> 0], [key |-> "down", value |-> 0], [key |-> "stay", value |-> 0]>>

RECURSIVE SumValues(_)
\* sum(d.values())
SumValues(d) == IF Len(d) = 0 THEN 0 ELSE d[Len(d)].value + SumValues(SubSeq(d, 1, Len(d) - 1))

\* A sequence that holds every value 0..Len-1 exactly once.
IsPermutation(s) ==
    /\ \A i \in 1..Len(s) : s[i] \in 0..(Len(s) - 1)
    /\ \A i, j \in 1..Len(s) : s[i] = s[j] => i = j

\* The permutations of 0..n-1 in one-line form.
PermutationsOf(n) == {p \in [1..n -> 0..(n - 1)] : IsPermutation(p)}

(***************************************************************************)
(* PermutationAnalyzer.                                                    *)
(***************************************************************************)
\* Only the indices of the cycle being walked count as visited.
seen_in_cycle(current, visited, cycle) == \E k \in 1..Len(cycle) : cycle[k] = current

\* current in visited
seen(current, visited, cycle) == current \in visited

RECURSIVE walk_cycle(_, _, _, _)
\* The inner while loop of permutation_cycles from `current`.
walk_cycle(perm, current, visited, cycle) ==
    IF seen(current, visited, cycle)
    THEN [visited |-> visited, cycle |-> cycle, error |-> "none"]
    ELSE IF current >= Len(perm)
    THEN [visited |-> visited \cup {current}, cycle |-> Append(cycle, current),
          error |-> "IndexError"]
    ELSE walk_cycle(perm, At(perm, current), visited \cup {current}, Append(cycle, current))

\* The cycle is put in front of the cycles found before it.
collect_cycle_in_front(cycles, cycle) == <<cycle>> \o cycles

\* cycles.append(cycle)
collect_cycle(cycles, cycle) == Append(cycles, cycle)

RECURSIVE cycles_from(_, _, _, _, _)
\* The outer for loop of permutation_cycles from index `start`.
cycles_from(perm, start, visited, cycles, iterations) ==
    IF start >= Len(perm)
    THEN [cycles |-> cycles, iterations |-> iterations, error |-> "none"]
    ELSE IF start \in visited
    THEN cycles_from(perm, start + 1, visited, cycles, iterations)
    ELSE LET w == walk_cycle(perm, start, visited, <<>>) IN
         IF w.error # "none"
         THEN [cycles |-> cycles, iterations |-> iterations + Len(w.cycle),
               error |-> w.error]
         ELSE cycles_from(perm, start + 1, w.visited, collect_cycle(cycles, w.cycle),
                          iterations + Len(w.cycle))

\* A loop that starts at index 1 and never visits index 0 on its own.
permutation_cycles_from_one(perm) == cycles_from(perm, 1, {}, <<>>, 0)

permutation_cycles(perm) == cycles_from(perm, 0, {}, <<>>, 0)

RECURSIVE parity_inversions(_, _)
\* The nested loops of permutation_parity from outer index i.
parity_inversions(perm, i) ==
    IF i >= Len(perm) THEN 0
    ELSE Cardinality({j \in (i + 1)..(Len(perm) - 1) : At(perm, i) > At(perm, j)})
         + parity_inversions(perm, i + 1)

\* The parity of the number of non-inversions.
permutation_parity_ascents(perm) ==
    IF Cardinality({p \in (0..(Len(perm) - 1)) \X (0..(Len(perm) - 1)) :
                      p[1] < p[2] /\ At(perm, p[1]) < At(perm, p[2])}) % 2 = 0
    THEN "even" ELSE "odd"

permutation_parity(perm) ==
    IF parity_inversions(perm, 0) % 2 = 0 THEN "even" ELSE "odd"

\* The sign with its two values exchanged.
permutation_sign_flipped(parity) == IF parity = "even" THEN -1 ELSE 1

\* 1 if parity == "even" else -1
permutation_sign(parity) == IF parity = "even" THEN 1 ELSE -1

\* The cycle lengths in the order of the cycles, not sorted.
cycle_signature_unsorted(cycles) ==
    JoinStr(<<"-">>, [k \in 1..Len(cycles) |-> NatToStr(Len(cycles[k]))])

cycle_signature_from_cycles(cycles) ==
    JoinStr(<<"-">>,
            LET lengths == SortedDesc([k \in 1..Len(cycles) |-> Len(cycles[k])])
            IN [k \in 1..Len(lengths) |-> NatToStr(lengths[k])])

describe_permutation(perm) ==
    LET c == permutation_cycles(perm)
        parity == permutation_parity(perm)
    IN IF c.error # "none" THEN [error |-> c.error]
       ELSE [error |-> "none",
             permutation |-> perm,
             cycles |-> c.cycles,
             cycleSignature |-> cycle_signature_from_cycles(c.cycles),
             parity |-> parity,
             sign |-> permutation_sign(parity)]

count_inversions(perm) ==
    Cardinality({p \in (0..(Len(perm) - 1)) \X (0..(Len(perm) - 1)) :
                   p[1] < p[2] /\ At(perm, p[1]) > At(perm, p[2])})

(***************************************************************************)
(* TransitionClassifier.                                                   *)
(***************************************************************************)
\* The position counted from 1.
index_of_from_one(row, value) ==
    IF \E i \in 1..Len(row) : row[i] = value
    THEN CHOOSE i \in 1..Len(row) : row[i] = value /\ \A j \in 1..(i - 1) : row[j] # value
    ELSE -1

\* list.index(value): the first position holding value, -1 for ValueError.
index_of(row, value) ==
    IF \E i \in 1..Len(row) : row[i] = value
    THEN (CHOOSE i \in 1..Len(row) : row[i] = value /\ \A j \in 1..(i - 1) : row[j] # value) - 1
    ELSE -1

\* A bell that is not in the row counts as standing in its first place.
target_pos_or_first(next_perm, bell) == Max2(0, index_of(next_perm, bell))

\* target_pos = next_perm.index(bell)
target_pos_of(next_perm, bell) == index_of(next_perm, bell)

\* Distance measured from the target back to the origin.
movement_distance_reversed(pos, target_pos) == pos - target_pos

movement_distance(pos, target_pos) == target_pos - pos

\* A bell counts as adjacent up to two places away.
is_far_two(distance) == Abs(distance) > 2

is_far(distance) == Abs(distance) > 1

\* Every bell is reported as staying.
movement_direction_still(distance) == "stay"

movement_direction(distance) ==
    IF distance < 0 THEN "up" ELSE IF distance > 0 THEN "down" ELSE "stay"

\* The bell's entry holds how far it moved.
bell_target_distance(pos, target_pos) == target_pos - pos

\* bell_perm[bell] = target_pos
bell_target(pos, target_pos) == target_pos

RECURSIVE movement_loop(_, _, _, _)
\* The first for loop of classify_transition from position pos.
movement_loop(prev_perm, next_perm, pos, acc) ==
    IF pos >= Len(prev_perm) THEN acc
    ELSE LET bell == At(prev_perm, pos)
             target_pos == target_pos_of(next_perm, bell)
             distance == movement_distance(pos, target_pos)
             direction == movement_direction(distance)
         IN IF target_pos < 0 THEN [error |-> "ValueError"]
            ELSE IF bell >= Len(prev_perm) THEN [error |-> "IndexError"]
            ELSE movement_loop(prev_perm, next_perm, pos + 1,
                   [error |-> "none",
                    position_perm |-> [acc.position_perm EXCEPT ![pos + 1] = target_pos],
                    bell_perm |-> [acc.bell_perm EXCEPT ![bell + 1] = bell_target(pos, target_pos)],
                    adjacent_only |-> IF is_far(distance) THEN FALSE ELSE acc.adjacent_only,
                    movement_counts |-> CounterAdd(acc.movement_counts, direction, 1),
                    distance_counts |-> CounterAdd(acc.distance_counts, IntToStr(distance), 1),
                    movements |-> Append(acc.movements,
                                         [bell |-> bell, from |-> pos, to |-> target_pos,
                                          distance |-> distance, direction |-> direction])])

\* The pair as found, without ordering its two positions.
swap_pair_unordered(idx, target) == <<target, idx>>

swap_pair(idx, target) == <<Min2(idx, target), Max2(idx, target)>>

\* Every position whose content moved starts a pair.
is_swap_any(position_perm, idx, target) == TRUE

\* position_perm[target] == idx
is_swap(position_perm, idx, target) == At(position_perm, target) = idx

RECURSIVE swap_loop(_, _, _)
\* The second for loop of classify_transition from position idx.
swap_loop(position_perm, idx, acc) ==
    IF idx >= Len(position_perm) THEN acc
    ELSE LET target == At(position_perm, idx) IN
         IF idx \in acc.visited_swaps \/ target = idx
         THEN swap_loop(position_perm, idx + 1, acc)
         ELSE IF target >= Len(position_perm) THEN [error |-> "IndexError"]
         ELSE IF is_swap(position_perm, idx, target)
         THEN LET pair == swap_pair(idx, target) IN
              swap_loop(position_perm, idx + 1,
                [error |-> "none",
                 swap_pairs |-> IF \E k \in 1..Len(acc.swap_pairs) : acc.swap_pairs[k] = pair
                                THEN acc.swap_pairs ELSE Append(acc.swap_pairs, pair),
                 visited_swaps |-> acc.visited_swaps \cup {idx, target}])
         ELSE swap_loop(position_perm, idx + 1, acc)

classify_transition(prev_perm, next_perm) ==
    LET stage == Len(prev_perm)
        m == movement_loop(prev_perm, next_perm, 0,
               [error |-> "none",
                position_perm |-> Repeat(0, stage),
                bell_perm |-> Repeat(0, stage),
                adjacent_only |-> TRUE,
                movement_counts |-> MovementCounter,
                distance_counts |-> <<>>,
                movements |-> <<>>])
    IN IF m.error # "none" THEN [error |-> m.error]
       ELSE LET s == swap_loop(m.position_perm, 0,
                       [error |-> "none", swap_pairs |-> <<>>, visited_swaps |-> {}])
            IN IF s.error # "none" THEN [error |-> s.error]
               ELSE LET c == permutation_cycles(m.position_perm)
                        parity == permutation_parity(m.position_perm)
                    IN IF c.error # "none" THEN [error |-> c.error]
                       ELSE [error |-> "none",
                             positionPermutation |-> m.position_perm,
                             bellPermutation |-> m.bell_perm,
                             cycles |-> c.cycles,
                             cycleSignature |-> cycle_signature_from_cycles(c.cycles),
                             parity |-> parity,
                             sign |-> permutation_sign(parity),
                             adjacentOnly |-> m.adjacent_only,
                             swapPairs |-> s.swap_pairs,
                             movements |-> m.movements,
                             movementCounts |-> m.movement_counts,
                             distanceCounts |-> m.distance_counts]

(***************************************************************************)
(* SequenceAnalyzer: parse_peal_file and build_change_ringing_library.     *)
(*                                                                         *)
(* A peal file is modelled after its lines are told apart: stage_meta is   *)
(* what the "# stage:" comment left in metadata (absent, an int, or text   *)
(* that int() refused), rows the stripped lines that are not comments.     *)
(* The title, comment and hunt bells of a structure play no part in the    *)
(* analysis and are left out.                                              *)
(***************************************************************************)
parse_peal_file(file) ==
    IF Len(file.rows) = 0 THEN [error |-> "ValueError"]
    ELSE IF file.stage_meta.kind = "int" /\ file.stage_meta.value # Len(file.rows[1])
    THEN [error |-> "ValueError"]
    ELSE [error |-> "none",
          metadata |-> file.stage_meta,
          rows |-> file.rows,
          stage |-> Len(file.rows[1])]

\* path.stem.replace("-", "_")
structure_id_of(stem) == [i \in 1..Len(stem) |-> IF stem[i] = "-" THEN "_" ELSE stem[i]]

\* The body of the loop over the rows for one row.
analyse_row(index, row, stage) ==
    IF \E i \in 1..Len(row) : ~IsDigitChar(row[i]) THEN [error |-> "ValueError"]
    ELSE LET perm == [i \in 1..Len(row) |-> CharToInt(row[i])]
             c == permutation_cycles(perm)
             parity == permutation_parity(perm)
         IN IF c.error # "none" THEN [error |-> c.error]
            ELSE [error |-> "none",
                  index |-> index,
                  notation |-> row,
                  permutation |-> perm,
                  cycles |-> c.cycles,
                  cycleSignature |-> cycle_signature_from_cycles(c.cycles),
                  parity |-> parity,
                  sign |-> permutation_sign(parity),
                  inversionCount |-> count_inversions(perm),
                  isIdentity |-> (perm = RangeList(stage))]

\* The dict is keyed by the cycle signature of the tuple, not by the tuple.
key_position_by_signature(entries, key) ==
    LET signature == cycle_signature_from_cycles(permutation_cycles(key).cycles) IN
    IF \E k \in 1..Len(entries) : entries[k].cycleSignature = signature
    THEN CHOOSE k \in 1..Len(entries) : entries[k].cycleSignature = signature
    ELSE 0

\* The position of key in the insertion-ordered dict entries, 0 if absent.
key_position(entries, key) ==
    IF \E k \in 1..Len(entries) : entries[k].permutation = key
    THEN CHOOSE k \in 1..Len(entries) : entries[k].permutation = key
    ELSE 0

\* unique_position_perms after the transition is counted under its tuple.
count_unique_perm(unique, transition) ==
    LET k == key_position(unique, transition.positionPermutation) IN
    IF k = 0
    THEN Append(unique, [permutation |-> transition.positionPermutation,
                         cycles |-> transition.cycles,
                         cycleSignature |-> transition.cycleSignature,
                         parity |-> transition.parity,
                         sign |-> transition.sign,
                         swapPairs |-> transition.swapPairs,
                         adjacentOnly |-> transition.adjacentOnly,
                         count |-> 1])
    ELSE [unique EXCEPT ![k].count = @ + 1]

RECURSIVE merge_counts(_, _, _)
\* for key, count in counts.items(): hist[key] += count, from item idx on
merge_counts(hist, counts, idx) ==
    IF idx >= Len(counts) THEN hist
    ELSE merge_counts(CounterAdd(hist, At(counts, idx).key, At(counts, idx).value),
                      counts, idx + 1)

RECURSIVE count_swap_pairs(_, _)
\* for pair in swapPairs: swap_hist[f"{pair[0]}-{pair[1]}"] += 1
count_swap_pairs(hist, pairs) ==
    IF Len(pairs) = 0 THEN hist
    ELSE count_swap_pairs(
           CounterAdd(hist, NatToStr(pairs[1][1]) \o <<"-">> \o NatToStr(pairs[1][2]), 1),
           SubSeq(pairs, 2, Len(pairs)))

\* adjacent_only_global = transition["adjacentOnly"]
adjacent_only_latest(adjacent_only_global, adjacentOnly) == adjacentOnly

\* adjacent_only_global = adjacent_only_global and transition["adjacentOnly"]
adjacent_only_and(adjacent_only_global, adjacentOnly) ==
    adjacent_only_global /\ adjacentOnly

\* The body of the loop over the transitions for the one from row idx.
analyse_transition(lib, idx) ==
    LET t == classify_transition(At(lib.row_details, idx).permutation,
                                 At(lib.row_details, idx + 1).permutation)
    IN IF t.error # "none" THEN [lib EXCEPT !.error = t.error]
       ELSE [lib EXCEPT
               !.transitions = Append(@, [index |-> idx,
                                          from |-> At(lib.row_details, idx).notation,
                                          to |-> At(lib.row_details, idx + 1).notation,
                                          result |-> t]),
               !.transition_parity_counts = CounterAdd(@, t.parity, 1),
               !.adjacent_only_global = adjacent_only_and(@, t.adjacentOnly),
               !.movement_hist = merge_counts(@, t.movementCounts, 0),
               !.distance_hist = merge_counts(@, t.distanceCounts, 0),
               !.swap_hist = count_swap_pairs(@, t.swapPairs),
               !.unique_position_perms = count_unique_perm(@, t)]

\* The structure of an analysed file.
structure_of(lib) ==
    [id |-> structure_id_of(lib.file.stem),
     stage |-> lib.parsed.stage,
     rows |-> Len(lib.parsed.rows),
     metadata |-> lib.parsed.metadata,
     rowsDetail |-> lib.row_details,
     transitions |-> lib.transitions,
     summary |-> [rowParityCounts |-> lib.row_parity_counts,
                  transitionParityCounts |-> lib.transition_parity_counts,
                  adjacentOnly |-> lib.adjacent_only_global,
                  uniquePositionPermutations |-> lib.unique_position_perms,
                  movementHistogram |-> lib.movement_hist,
                  distanceHistogram |-> lib.distance_hist,
                  swapPairHistogram |-> lib.swap_hist]]

\* The local variables of build_change_ringing_library before a file is parsed.
library_start(file) ==
    [file |-> file,
     parsed |-> [error |-> "unparsed"],
     error |-> "none",
     row_details |-> <<>>,
     row_parity_counts |-> ParityCounter,
     transitions |-> <<>>,
     transition_parity_counts |-> ParityCounter,
     unique_position_perms |-> <<>>,
     movement_hist |-> MovementCounter,
     distance_hist |-> <<>>,
     swap_hist |-> <<>>,
     adjacent_only_global |-> TRUE,
     structures |-> <<>>]

\* parsed = parse_peal_file(path)
library_parse(lib) ==
    LET parsed == parse_peal_file(lib.file) IN
    [lib EXCEPT !.parsed = parsed, !.error = parsed.error]

\* One iteration of the loop over the rows.
library_row(lib) ==
    LET index == Len(lib.row_details)
        d == analyse_row(index, At(lib.parsed.rows, index), lib.parsed.stage)
    IN IF d.error # "none" THEN [lib EXCEPT !.error = d.error]
       ELSE [lib EXCEPT !.row_details = Append(@, d),
                        !.row_parity_counts = CounterAdd(@, d.parity, 1)]

\* One iteration of the loop over the transitions.
library_transition(lib) == analyse_transition(lib, Len(lib.transitions))

\* structures.append(structure)
library_append(lib) == [lib EXCEPT !.structures = Append(@, structure_of(lib))]

(***************************************************************************)
(* SpecLibrary: build_change_ringing_library over a directory that holds   *)
(* one peal file, one step per row and per transition.  The file's rows    *)
(* are either permutations of one stage, or any strings of digits and of   *)
(* the letter x up to MaxTextLen long.                                     *)
(***************************************************************************)
\* f"p-{k}": the stem of the k-th path
file_stem(k) == <<"p", "-">> \o NatToStr(k)

RowText(perm) == [i \in 1..Len(perm) |-> DigitChars[perm[i] + 1]]

PermutationRows(n) == {RowText(q) : q \in PermutationsOf(n)}

TextChars == {DigitChars[d] : d \in 1..MaxTextLen} \cup {"x"}

TextRows == UNION {[1..n -> TextChars] : n \in 1..MaxTextLen}

RowLists ==
    (UNION {[1..k -> PermutationRows(n)] : n \in 1..MaxPealStage, k \in 1..MaxRows})
    \cup (UNION {[1..k -> TextRows] : k \in 0..MaxRows})

StageMetas ==
    {[kind |-> "absent", value |-> 0], [kind |-> "text", value |-> 0]}
    \cup {[kind |-> "int", value |-> v] : v \in 1..MaxPealStage}

InitLibrary ==
    /\ pc = "library_parse"
    /\ \E rows \in RowLists, meta \in StageMetas :
          library = library_start([stem |-> file_stem(1), stage_meta |-> meta, rows |-> rows])
    /\ analyzer = Idle
    /\ classifier = Idle
    /\ aggregator = Idle
    /\ cataloger = Idle

\* An exception leaves build_change_ringing_library: nothing is returned.
LibraryStep(next, ok_pc) ==
    /\ library' = next
    /\ pc' = IF next.error # "none" THEN "library_error" ELSE ok_pc
    /\ UNCHANGED <<analyzer, classifier, aggregator, cataloger>>

LibraryParse ==
    /\ pc = "library_parse"
    /\ LibraryStep(library_parse(library), "library_rows")

LibraryRow ==
    /\ pc = "library_rows"
    /\ Len(library.row_details) < Len(library.parsed.rows)
    /\ LibraryStep(library_row(library), "library_rows")

LibraryRowsDone ==
    /\ pc = "library_rows"
    /\ Len(library.row_details) = Len(library.parsed.rows)
    /\ pc' = "library_transitions"
    /\ UNCHANGED <<analyzer, classifier, library, aggregator, cataloger>>

LibraryTransition ==
    /\ pc = "library_transitions"
    /\ Len(library.transitions) < Len(library.row_details) - 1
    /\ LibraryStep(library_transition(library), "library_transitions")

LibraryStructure ==
    /\ pc = "library_transitions"
    /\ Len(library.transitions) >= Len(library.row_details) - 1
    /\ LibraryStep(library_append(library), "library_done")

NextLibrary ==
    \/ LibraryParse
    \/ LibraryRow
    \/ LibraryRowsDone
    \/ LibraryTransition
    \/ LibraryStructure

SpecLibrary == InitLibrary /\ [][NextLibrary]_vars

(***************************************************************************)
(* FamilyAggregator: build_permutation_families.  The dict families is the *)
(* sequence of its values in insertion order; a family is found by its     *)
(* key, the tuple of positionPermutation.                                  *)
(***************************************************************************)
RECURSIVE concat_digits(_)
\* ''.join(str(x) for x in key)
concat_digits(key) ==
    IF Len(key) = 0 THEN <<>> ELSE NatToStr(key[1]) \o concat_digits(Tail(key))

\* f"perm_{''.join(str(x) for x in key)}"
family_id(key) == <<"p", "e", "r", "m", "_">> \o concat_digits(key)

\* Only the family added last is compared with the key.
family_position_last(families, key) ==
    IF Len(families) > 0 /\ families[Len(families)].positionPermutation = key
    THEN Len(families)
    ELSE 0

\* The position of the family of key in families, 0 if absent.
family_position(families, key) ==
    IF \E k \in 1..Len(families) : families[k].positionPermutation = key
    THEN CHOOSE k \in 1..Len(families) : families[k].positionPermutation = key
    ELSE 0

new_family(entry) ==
    [id |-> family_id(entry.permutation),
     positionPermutation |-> entry.permutation,
     cycles |-> entry.cycles,
     cycleSignature |-> entry.cycleSignature,
     parity |-> entry.parity,
     sign |-> entry.sign,
     swapPairs |-> entry.swapPairs,
     adjacentOnly |-> entry.adjacentOnly,
     occurrenceCount |-> 0,
     stages |-> {},
     structures |-> <<>>]

\* The count of the last entry replaces the total.
overwrite_count(occurrenceCount, count) == count

\* family["occurrenceCount"] += entry["count"]
accumulate_count(occurrenceCount, count) == occurrenceCount + count

\* The number of entries of the structure stands for its stage.
structure_entries(structure) == Len(structure.summary.uniquePositionPermutations)

\* stage = structure["stage"]
structure_stage(structure) == structure.stage

\* The stage of the last structure replaces the set.
only_stage(stages, stage) == {stage}

\* family["stages"].add(stage)
add_stage(stages, stage) == stages \cup {stage}

\* The body of the loop over the entries of a structure for one entry.
aggregate_entry(families, structure, entry) ==
    LET found == family_position(families, entry.permutation)
        with_family == IF found = 0 THEN Append(families, new_family(entry)) ELSE families
        k == IF found = 0 THEN Len(with_family) ELSE found
    IN [with_family EXCEPT
          ![k].occurrenceCount = accumulate_count(@, entry.count),
          ![k].stages = add_stage(@, structure_stage(structure)),
          ![k].structures = Append(@, [id |-> structure.id,
                                       stage |-> structure_stage(structure),
                                       count |-> entry.count])]

\* The sort key (cycleSignature, id) of a is below that of b.
family_key_less(a, b) ==
    \/ StrLess(a.cycleSignature, b.cycleSignature)
    \/ a.cycleSignature = b.cycleSignature /\ StrLess(a.id, b.id)

RECURSIVE insert_family(_, _)
\* x put behind every family whose key is not above its own (a stable sort).
insert_family(x, sorted) ==
    IF Len(sorted) = 0 THEN <<x>>
    ELSE IF family_key_less(x, sorted[1]) THEN <<x>> \o sorted
    ELSE <<sorted[1]>> \o insert_family(x, Tail(sorted))

RECURSIVE sort_families(_)
\* family_list.sort(key=lambda item: (item["cycleSignature"], item["id"]))
sort_families(family_list) ==
    IF Len(family_list) = 0 THEN <<>>
    ELSE insert_family(family_list[Len(family_list)],
                       sort_families(SubSeq(family_list, 1, Len(family_list) - 1)))

\* The loop over families.values() that sorts each stages set, and the sort.
finish_families(families) ==
    sort_families([k \in 1..Len(families) |->
                     [families[k] EXCEPT !.stages = SortedInts(@)]])

RECURSIVE aggregate_from(_, _, _, _)
\* The two nested loops from entry ei of structure si on.
aggregate_from(structures, si, ei, families) ==
    IF si >= Len(structures) THEN families
    ELSE LET unique_perms == At(structures, si).summary.uniquePositionPermutations IN
         IF ei >= Len(unique_perms) THEN aggregate_from(structures, si + 1, 0, families)
         ELSE aggregate_from(structures, si, ei + 1,
                             aggregate_entry(families, At(structures, si), At(unique_perms, ei)))

build_permutation_families(structures) ==
    finish_families(aggregate_from(structures, 0, 0, <<>>))

(***************************************************************************)
(* SpecFamilies: build_permutation_families over up to MaxStructures       *)
(* structures of the library, one step per entry.  A structure is what     *)
(* build_change_ringing_library makes of a peal file of SpecLibrary, cut   *)
(* to the fields the aggregation reads: id, stage and the summary's        *)
(* uniquePositionPermutations.                                             *)
(***************************************************************************)
RECURSIVE library_rows_loop(_)
library_rows_loop(lib) ==
    IF lib.error # "none" \/ Len(lib.row_details) >= Len(lib.parsed.rows) THEN lib
    ELSE library_rows_loop(library_row(lib))

RECURSIVE library_transitions_loop(_)
library_transitions_loop(lib) ==
    IF lib.error # "none" \/ Len(lib.transitions) >= Len(lib.row_details) - 1 THEN lib
    ELSE library_transitions_loop(library_transition(lib))

\* build_change_ringing_library for the one file.
analyse_file(file) ==
    LET parsed == library_parse(library_start(file)) IN
    IF parsed.error # "none" THEN parsed
    ELSE LET analysed == library_transitions_loop(library_rows_loop(parsed)) IN
         IF analysed.error # "none" THEN analysed ELSE library_append(analysed)

\* The stage and unique permutations of every file that is analysed to the end.
AnalysedSummaries ==
    {[stage |-> lib.structures[1].stage,
      uniquePositionPermutations |-> lib.structures[1].summary.uniquePositionPermutations] :
        lib \in {l \in {analyse_file([stem |-> file_stem(1),
                                      stage_meta |-> [kind |-> "absent", value |-> 0],
                                      rows |-> rows]) : rows \in RowLists} :
                   l.error = "none"}}

StructureLists == UNION {[1..n -> AnalysedSummaries] : n \in 0..MaxStructures}

InitFamilies ==
    /\ pc = "families_loop"
    /\ \E sl \in StructureLists :
          aggregator =
            [structures |-> [k \in 1..Len(sl) |->
                               [id |-> structure_id_of(file_stem(k)),
                                stage |-> sl[k].stage,
                                summary |-> [uniquePositionPermutations |->
                                               sl[k].uniquePositionPermutations]]],
             si |-> 0,
             ei |-> 0,
             families |-> <<>>,
             family_list |-> <<>>]
    /\ analyzer = Idle
    /\ classifier = Idle
    /\ library = Idle
    /\ cataloger = Idle

\* One iteration of the loop over the entries of structure si.
FamilyEntry ==
    /\ pc = "families_loop"
    /\ aggregator.si < Len(aggregator.structures)
    /\ LET structure == At(aggregator.structures, aggregator.si)
           unique_perms == structure.summary.uniquePositionPermutations
       IN /\ aggregator.ei < Len(unique_perms)
          /\ aggregator' = [aggregator EXCEPT
                              !.families = aggregate_entry(@, structure,
                                                           At(unique_perms, aggregator.ei)),
                              !.ei = @ + 1]
    /\ UNCHANGED <<pc, analyzer, classifier, library, cataloger>>

\* The entries of structure si are done: on to the next structure.
FamilyNextStructure ==
    /\ pc = "families_loop"
    /\ aggregator.si < Len(aggregator.structures)
    /\ aggregator.ei >=
         Len(At(aggregator.structures, aggregator.si).summary.uniquePositionPermutations)
    /\ aggregator' = [aggregator EXCEPT !.si = @ + 1, !.ei = 0]
    /\ UNCHANGED <<pc, analyzer, classifier, library, cataloger>>

\* After the loops: the stages sorted, the list sorted and returned.
FamilyFinish ==
    /\ pc = "families_loop"
    /\ aggregator.si >= Len(aggregator.structures)
    /\ aggregator' = [aggregator EXCEPT !.family_list = finish_families(aggregator.families)]
    /\ pc' = "families_done"
    /\ UNCHANGED <<analyzer, classifier, library, cataloger>>

NextFamilies ==
    \/ FamilyEntry
    \/ FamilyNextStructure
    \/ FamilyFinish

SpecFamilies == InitFamilies /\ [][NextFamilies]_vars

(***************************************************************************)
(* SpecHighStage: build_permutation_families, with the steps of            *)
(* SpecFamilies, over structures of a stage HighStage above ten, where a   *)
(* position holds two decimal digits.  Each structure holds one transition *)
(* from rounds; its position permutation puts the places 0, 1 and 10 and   *)
(* above in any order in front and leaves 2..9 in order behind them.       *)
(***************************************************************************)
\* A bell-ringing stage with two-digit places.
HighStage == 12

RECURSIVE AsList(_, _)
\* The list of the first n values of f.
AsList(f, n) == IF n <= 0 THEN <<>> ELSE Append(AsList(f, n - 1), f[n])

RECURSIVE InverseFrom(_, _)
\* The row in which bell pos stands at place q[pos], from place k on.
InverseFrom(q, k) ==
    IF k >= Len(q) THEN <<>>
    ELSE <<(CHOOSE pos \in 0..(Len(q) - 1) : At(q, pos) = k)>> \o InverseFrom(q, k + 1)

HighStagePermutations ==
    LET front == {0, 1} \cup 10..(HighStage - 1)
        n == Cardinality(front)
    IN {AsList(h, n) \o <<2, 3, 4, 5, 6, 7, 8, 9>> :
          h \in {f \in [1..n -> front] : \A i, j \in 1..n : f[i] = f[j] => i = j}}

\* The summary of the sequence rounds, row: one transition, counted once.
high_stage_summary(q) ==
    [uniquePositionPermutations |->
       count_unique_perm(<<>>, classify_transition(RangeList(Len(q)), InverseFrom(q, 0)))]

HighStageLists == UNION {[1..n -> HighStagePermutations] : n \in 0..MaxStructures}

InitHighStage ==
    /\ pc = "families_loop"
    /\ \E sl \in HighStageLists :
          aggregator =
            [structures |-> [k \in 1..Len(sl) |->
                               [id |-> structure_id_of(file_stem(k)),
                                stage |-> Len(sl[k]),
                                summary |-> high_stage_summary(sl[k])]],
             si |-> 0,
             ei |-> 0,
             families |-> <<>>,
             family_list |-> <<>>]
    /\ analyzer = Idle
    /\ classifier = Idle
    /\ library = Idle
    /\ cataloger = Idle

SpecHighStage == InitHighStage /\ [][NextFamilies]_vars

(***************************************************************************)
(* SymmetricGroupCataloger.                                                *)
(***************************************************************************)
\* The tuple itertools.permutations(range(n)) yields after perm_tuple:
\* the next one in lexicographic order, or the iterator is exhausted.
next_permutation(perm_tuple) ==
    LET n == Len(perm_tuple)
        rises == {i \in 1..(n - 1) : perm_tuple[i] < perm_tuple[i + 1]}
    IN IF rises = {} THEN [exhausted |-> TRUE, perm_tuple |-> <<>>]
       ELSE LET i == CHOOSE x \in rises : \A y \in rises : y <= x
                js == {j \in (i + 1)..n : perm_tuple[j] > perm_tuple[i]}
                j == CHOOSE x \in js : \A y \in js : y <= x
                swapped == [perm_tuple EXCEPT ![i] = perm_tuple[j], ![j] = perm_tuple[i]]
            IN [exhausted |-> FALSE,
                perm_tuple |-> SubSeq(swapped, 1, i) \o Reversed(SubSeq(swapped, i + 1, n))]

\* The count is set to one on every occurrence.
counter_assign_one(counter, key) ==
    IF key \in DictKeys(counter)
    THEN [counter EXCEPT ![DictIndex(counter, key)].value = 1]
    ELSE Append(counter, [key |-> key, value |-> 1])

\* counter[key] += 1
counter_increment(counter, key) == CounterAdd(counter, key, 1)

\* Every example is kept, whatever samples_per_cycle says.
keep_every_sample(samples, signature, samples_per_cycle, sample) ==
    IF signature \in DictKeys(samples)
    THEN [samples EXCEPT ![DictIndex(samples, signature)].value = Append(@, sample)]
    ELSE Append(samples, [key |-> signature, value |-> <<sample>>])

\* The sample kept only while the signature's list is short of samples_per_cycle.
keep_sample(samples, signature, samples_per_cycle, sample) ==
    IF signature \in DictKeys(samples)
    THEN IF Len(DictGet(samples, signature)) < samples_per_cycle
         THEN [samples EXCEPT ![DictIndex(samples, signature)].value = Append(@, sample)]
         ELSE samples
    ELSE IF 0 < samples_per_cycle
         THEN Append(samples, [key |-> signature, value |-> <<sample>>])
         ELSE Append(samples, [key |-> signature, value |-> <<>>])

\* The body of the enumeration loop for one perm_tuple.
enumerate_permutation(c, perm_tuple) ==
    LET cy == permutation_cycles(perm_tuple)
        parity == permutation_parity(perm_tuple)
        signature == cycle_signature_from_cycles(cy.cycles)
    IN [c EXCEPT
          !.parity_counts = counter_increment(@, parity),
          !.cycle_counter = counter_increment(@, signature),
          !.cycle_samples = keep_sample(@, signature, c.samples_per_cycle,
                                        [permutation |-> perm_tuple,
                                         cycles |-> cy.cycles,
                                         parity |-> parity,
                                         sign |-> permutation_sign(parity)]),
          !.enumerated = @ + 1,
          !.iterator = next_permutation(perm_tuple)]

\* f"swap_{index}_{index + 1}"
swap_label(index) ==
    <<"s", "w", "a", "p", "_">> \o NatToStr(index) \o <<"_">> \o NatToStr(index + 1)

\* range(stage) with the entries at index and index + 1 exchanged
adjacent_transposition(stage, index) ==
    [i \in 1..stage |-> IF i = index + 1 THEN index + 1
                        ELSE IF i = index + 2 THEN index
                        ELSE i - 1]

generator(label, perm) ==
    LET d == describe_permutation(perm) IN
    [label |-> label, permutation |-> d.permutation, cycles |-> d.cycles,
     cycleSignature |-> d.cycleSignature, parity |-> d.parity, sign |-> d.sign]

\* The long cycle is added from stage 2 on.
has_long_cycle_from_two(stage) == stage > 1

\* if stage > 2
has_long_cycle(stage) == stage > 2

canonical_generators(stage) ==
    <<generator(<<"i", "d", "e", "n", "t", "i", "t", "y">>, RangeList(stage))>>
    \o [k \in 1..(IF stage > 1 THEN stage - 1 ELSE 0) |->
          generator(swap_label(k - 1), adjacent_transposition(stage, k - 1))]
    \o (IF has_long_cycle(stage)
        THEN <<generator(<<"l", "o", "n", "g", "_", "c", "y", "c", "l", "e">>,
                         [i \in 1..stage |-> IF i = stage THEN 0 ELSE i])>>
        ELSE <<>>)
    \o (IF stage > 1
        THEN <<generator(<<"r", "e", "v", "e", "r", "s", "e">>, Reversed(RangeList(stage)))>>
        ELSE <<>>)

cycle_type_samples(c) ==
    LET keys == SortedStrs(DictKeys(c.cycle_counter)) IN
    [k \in 1..Len(keys) |->
       [cycleSignature |-> keys[k],
        count |-> DictGet(c.cycle_counter, keys[k]),
        samples |-> DictGet(c.cycle_samples, keys[k])]]

catalog_entry(c) ==
    [stage |-> c.stage,
     label |-> <<"S", "_">> \o NatToStr(c.stage),
     order |-> c.order,
     parityCounts |-> c.parity_counts,
     cycleTypeCounts |-> c.cycle_counter,
     cycleTypeSamples |-> cycle_type_samples(c),
     canonicalGenerators |-> canonical_generators(c.stage)]

(***************************************************************************)
(* SpecCatalog: build_symmetric_group_catalog(stages, samples_per_cycle),  *)
(* one step per enumerated permutation.  pending is what the loop over     *)
(* sorted(set(stages)) has still to visit.                                 *)
(***************************************************************************)
StageLists == UNION {[1..n -> 0..MaxCatalogStage] : n \in 0..MaxStageList}

InitCatalog ==
    /\ pc = "catalog_next_stage"
    /\ \E st \in StageLists, spc \in 0..DefaultSamplesPerCycle :
          cataloger = [stages |-> st,
                       samples_per_cycle |-> spc,
                       pending |-> SortedInts({st[i] : i \in 1..Len(st)}),
                       stage |-> -1,
                       order |-> 0,
                       enumerated |-> 0,
                       iterator |-> [exhausted |-> TRUE, perm_tuple |-> <<>>],
                       cycle_counter |-> <<>>,
                       cycle_samples |-> <<>>,
                       parity_counts |-> <<>>,
                       catalog |-> <<>>]
    /\ analyzer = Idle
    /\ classifier = Idle
    /\ library = Idle
    /\ aggregator = Idle

\* The head of the loop over the stages: the counters of a new stage.
CatalogBeginStage ==
    /\ pc = "catalog_next_stage"
    /\ Len(cataloger.pending) > 0
    /\ cataloger' = [cataloger EXCEPT
                       !.stage = cataloger.pending[1],
                       !.pending = Tail(cataloger.pending),
                       !.order = Factorial(cataloger.pending[1]),
                       !.enumerated = 0,
                       !.iterator = [exhausted |-> FALSE,
                                     perm_tuple |-> RangeList(cataloger.pending[1])],
                       !.cycle_counter = <<>>,
                       !.cycle_samples = <<>>,
                       !.parity_counts = ParityCounter]
    /\ pc' = "catalog_enumerate"
    /\ UNCHANGED <<analyzer, classifier, library, aggregator>>

\* One iteration of the loop over permutations(range(stage)).
CatalogEnumerate ==
    /\ pc = "catalog_enumerate"
    /\ ~cataloger.iterator.exhausted
    /\ cataloger' = enumerate_permutation(cataloger, cataloger.iterator.perm_tuple)
    /\ UNCHANGED <<pc, analyzer, classifier, library, aggregator>>

\* After the enumeration: the generators, the samples and the stage's entry.
CatalogFinishStage ==
    /\ pc = "catalog_enumerate"
    /\ cataloger.iterator.exhausted
    /\ cataloger' = [cataloger EXCEPT !.catalog = Append(@, catalog_entry(cataloger))]
    /\ pc' = "catalog_next_stage"
    /\ UNCHANGED <<analyzer, classifier, library, aggregator>>

\* The loop over the stages is over: the catalog is returned.
CatalogReturn ==
    /\ pc = "catalog_next_stage"
    /\ Len(cataloger.pending) = 0
    /\ pc' = "catalog_done"
    /\ UNCHANGED <<analyzer, classifier, library, aggregator, cataloger>>

NextCatalog ==
    \/ CatalogBeginStage
    \/ CatalogEnumerate
    \/ CatalogFinishStage
    \/ CatalogReturn

SpecCatalog == InitCatalog /\ [][NextCatalog]_vars

(***************************************************************************)
(* SpecPerm: the single-permutation functions applied to every sequence of *)
(* length n <= MaxPermLen with values in 0..n (n itself is out of range).  *)
(***************************************************************************)
PermInputs == UNION {[1..n -> 0..n] : n \in 0..MaxPermLen}

InitPerm ==
    /\ pc = "perm_input"
    /\ \E p \in PermInputs : analyzer = [perm |-> p]
    /\ classifier = Idle
    /\ library = Idle
    /\ aggregator = Idle
    /\ cataloger = Idle

\* describe_permutation(perm) and count_inversions(perm)
Describe ==
    /\ pc = "perm_input"
    /\ analyzer' = [perm |-> analyzer.perm,
                    walk |-> permutation_cycles(analyzer.perm),
                    described |-> describe_permutation(analyzer.perm),
                    inversionCount |-> count_inversions(analyzer.perm)]
    /\ pc' = "perm_done"
    /\ UNCHANGED <<classifier, library, aggregator, cataloger>>

NextPerm == Describe

SpecPerm == InitPerm /\ [][NextPerm]_vars

(***************************************************************************)
(* SpecTransition: classify_transition applied to two rows that the row    *)
(* loop of build_change_ringing_library lets through (non-empty, every     *)
(* value below the row's own length): two permutations of one stage up to  *)
(* MaxStage, or any two such rows up to MaxRowLen long.                    *)
(***************************************************************************)
AnalysedRows == UNION {[1..n -> 0..(n - 1)] : n \in 1..MaxRowLen}

TransitionInputs ==
    (UNION {PermutationsOf(n) \X PermutationsOf(n) : n \in 1..MaxStage})
    \cup (AnalysedRows \X AnalysedRows)

InitTransition ==
    /\ pc = "transition_input"
    /\ \E ab \in TransitionInputs :
          classifier = [prev_perm |-> ab[1], next_perm |-> ab[2]]
    /\ analyzer = Idle
    /\ library = Idle
    /\ aggregator = Idle
    /\ cataloger = Idle

Classify ==
    /\ pc = "transition_input"
    /\ classifier' = [prev_perm |-> classifier.prev_perm,
                      next_perm |-> classifier.next_perm,
                      transition |-> classify_transition(classifier.prev_perm,
                                                         classifier.next_perm)]
    /\ pc' = "transition_done"
    /\ UNCHANGED <<analyzer, library, aggregator, cataloger>>

NextTransition == Classify

SpecTransition == InitTransition /\ [][NextTransition]_vars

(***************************************************************************)
(* Properties of the single-permutation functions (SpecPerm).              *)
(***************************************************************************)
\* How often index i occurs in the cycles.
Occurrences(cycles, i) ==
    Cardinality(UNION {{<<c, k>> : k \in {k \in 1..Len(cycles[c]) : cycles[c][k] = i}} :
                         c \in 1..Len(cycles)})

\* C1: for a permutation p, permutation_cycles(p) returns the orbits of p:
\* no error, every index 0..n-1 in exactly one cycle and nothing else in any,
\* and inside a cycle each element is mapped by p to the next one, the last
\* to the first.
C1_CyclesAreOrbits ==
    (pc = "perm_done" /\ IsPermutation(analyzer.perm)) =>
        LET p == analyzer.perm
            r == analyzer.walk
        IN /\ r.error = "none"
           /\ \A i \in 0..(Len(p) - 1) : Occurrences(r.cycles, i) = 1
           /\ \A c \in 1..Len(r.cycles) :
                 /\ Len(r.cycles[c]) >= 1
                 /\ \A k \in 1..Len(r.cycles[c]) :
                       /\ r.cycles[c][k] \in 0..(Len(p) - 1)
                       /\ At(p, r.cycles[c][k]) =
                            r.cycles[c][IF k = Len(r.cycles[c]) THEN 1 ELSE k + 1]

\* A permutation of four indices with a 3-cycle and a fixed point.
C1_Witness ==
    /\ pc = "perm_done"
    /\ IsPermutation(analyzer.perm)
    /\ Len(analyzer.perm) = 4
    /\ Len(analyzer.walk.cycles) = 2
    /\ \E c \in 1..2 : Len(analyzer.walk.cycles[c]) = 3

\* C2: for a permutation p the three parity computations agree:
\* count_inversions(p) is even iff permutation_parity(p) = 'even' iff
\* n - (number of cycles) is even; the sign is +1 for 'even', -1 for 'odd'.
C2_ParityConsistent ==
    (pc = "perm_done" /\ IsPermutation(analyzer.perm)) =>
        LET d == analyzer.described
            n == Len(analyzer.perm)
        IN /\ d.error = "none"
           /\ d.parity \in {"even", "odd"}
           /\ (analyzer.inversionCount % 2 = 0) <=> (d.parity = "even")
           /\ (d.parity = "even") <=> ((n - Len(analyzer.walk.cycles)) % 2 = 0)
           /\ (d.parity = "even") => (d.sign = 1)
           /\ (d.parity = "odd") => (d.sign = -1)

\* An odd permutation of four indices with at least three inversions.
C2_Witness ==
    /\ pc = "perm_done"
    /\ IsPermutation(analyzer.perm)
    /\ Len(analyzer.perm) = 4
    /\ analyzer.described.parity = "odd"
    /\ analyzer.inversionCount >= 3

(***************************************************************************)
(* Properties of classify_transition (SpecTransition).                     *)
(***************************************************************************)
\* Rows A and B are permutations of the same stage and were classified.
ClassifiedPermutations ==
    /\ pc = "transition_done"
    /\ IsPermutation(classifier.prev_perm)
    /\ IsPermutation(classifier.next_perm)
    /\ Len(classifier.prev_perm) = Len(classifier.next_perm)

\* C3: transition round trip. For permutations A, B of one stage, moving each
\* bell to its computed target reproduces B: B[bellPermutation[b]] = b,
\* B[positionPermutation[p]] = A[p], positionPermutation[p] = bellPermutation[A[p]].
C3_TransitionRoundTrip ==
    ClassifiedPermutations =>
        LET A == classifier.prev_perm
            B == classifier.next_perm
            t == classifier.transition
            n == Len(A)
        IN /\ t.error = "none"
           /\ Len(t.positionPermutation) = n
           /\ Len(t.bellPermutation) = n
           /\ \A b \in 0..(n - 1) :
                 /\ At(t.bellPermutation, b) \in 0..(n - 1)
                 /\ At(B, At(t.bellPermutation, b)) = b
           /\ \A p \in 0..(n - 1) :
                 /\ At(t.positionPermutation, p) \in 0..(n - 1)
                 /\ At(B, At(t.positionPermutation, p)) = At(A, p)
                 /\ At(t.positionPermutation, p) = At(t.bellPermutation, At(A, p))

\* Two different rows of stage 3 whose transition is a 3-cycle of positions.
C3_Witness ==
    /\ ClassifiedPermutations
    /\ Len(classifier.prev_perm) = 3
    /\ classifier.prev_perm # RangeList(3)
    /\ classifier.transition.error = "none"
    /\ Len(classifier.transition.cycles) = 1

\* C4: the swapPairs are exactly the 2-cycles of positionPermutation: [i, j] is
\* reported iff i < j and the two positions map to each other; each pair is
\* listed once, as (min, max), and no position is in two pairs.
C4_SwapPairsAreTwoCycles ==
    ClassifiedPermutations =>
        LET t == classifier.transition
            pp == t.positionPermutation
            n == Len(classifier.prev_perm)
            Reported(i, j) == \E k \in 1..Len(t.swapPairs) : t.swapPairs[k] = <<i, j>>
        IN /\ t.error = "none"
           /\ \A i, j \in 0..(n - 1) :
                 Reported(i, j) <=> (i < j /\ At(pp, i) = j /\ At(pp, j) = i)
           /\ \A k \in 1..Len(t.swapPairs) :
                 /\ Len(t.swapPairs[k]) = 2
                 /\ t.swapPairs[k][1] \in 0..(n - 1)
                 /\ t.swapPairs[k][2] \in 0..(n - 1)
           /\ \A k, l \in 1..Len(t.swapPairs) :
                 k # l => {t.swapPairs[k][1], t.swapPairs[k][2]}
                            \cap {t.swapPairs[l][1], t.swapPairs[l][2]} = {}

\* A transition of stage 4 that reports two swap pairs.
C4_Witness ==
    /\ ClassifiedPermutations
    /\ classifier.transition.error = "none"
    /\ Len(classifier.transition.swapPairs) = 2

\* C5: adjacentOnly is true iff every movement record has |distance| <= 1,
\* where distance = to - from.
C5_AdjacentOnlyIffNear ==
    ClassifiedPermutations =>
        LET t == classifier.transition IN
        /\ t.error = "none"
        /\ Len(t.movements) = Len(classifier.prev_perm)
        /\ \A k \in 1..Len(t.movements) :
              t.movements[k].distance = t.movements[k].to - t.movements[k].from
        /\ (t.adjacentOnly = TRUE)
              <=> \A k \in 1..Len(t.movements) : Abs(t.movements[k].distance) <= 1

\* A transition in which a bell moves exactly two places and none further.
C5_Witness ==
    /\ ClassifiedPermutations
    /\ classifier.transition.error = "none"
    /\ classifier.transition.adjacentOnly = FALSE
    /\ \A k \in 1..Len(classifier.transition.movements) :
          Abs(classifier.transition.movements[k].distance) <= 2

(***************************************************************************)
(* Properties of build_symmetric_group_catalog (SpecCatalog).              *)
(***************************************************************************)
RECURSIVE Iterate(_, _, _)
\* p applied k times to index i
Iterate(p, i, k) == IF k = 0 THEN i ELSE Iterate(p, At(p, i), k - 1)

\* The orbits of the permutation p, as sets of indices.
Orbits(p) == {{Iterate(p, i, k) : k \in 0..(Len(p) - 1)} : i \in 0..(Len(p) - 1)}

RECURSIVE SizesFrom(_, _)
\* The sizes of the sets in S that are at most L, largest first.
SizesFrom(S, L) ==
    IF L = 0 THEN <<>>
    ELSE [k \in 1..Cardinality({o \in S : Cardinality(o) = L}) |-> L] \o SizesFrom(S, L - 1)

\* The descending cycle-length signature of p, from its orbits.
CycleType(p) ==
    LET sizes == SizesFrom(Orbits(p), Len(p)) IN
    JoinStr(<<"-">>, [k \in 1..Len(sizes) |-> NatToStr(sizes[k])])

\* C8: every entry of stage n of the returned catalog has order n!, cycleTypeCounts that sum
\* to n!, parity counts that sum to n!, and for n >= 2 as many even as odd
\* permutations (n!/2 each).
C8_CatalogExact ==
    (pc = "catalog_done") =>
        \A e \in 1..Len(cataloger.catalog) :
            LET entry == cataloger.catalog[e]
                nfact == Cardinality(PermutationsOf(entry.stage))
            IN /\ entry.order = nfact
               /\ SumValues(entry.cycleTypeCounts) = nfact
               /\ DictKeys(entry.parityCounts) = {"even", "odd"}
               /\ Len(entry.parityCounts) = 2
               /\ DictGet(entry.parityCounts, "even") + DictGet(entry.parityCounts, "odd") = nfact
               /\ entry.stage >= 2 =>
                     /\ DictGet(entry.parityCounts, "even") = DictGet(entry.parityCounts, "odd")
                     /\ 2 * DictGet(entry.parityCounts, "even") = nfact

\* The catalog holds the entry of stage 4 and that of a stage below 2.
C8_Witness ==
    /\ pc = "catalog_done"
    /\ \E e \in 1..Len(cataloger.catalog) :
          cataloger.catalog[e].stage = 4 /\ cataloger.catalog[e].order = 24
    /\ \E e \in 1..Len(cataloger.catalog) : cataloger.catalog[e].stage < 2

\* C9: the entry of stage 3 has order 6, cycleTypeCounts {"1-1-1": 1, "2-1": 3,
\* "3": 2} and parityCounts {even: 3, odd: 3}; in every entry of the returned
\* catalog cycleTypeCounts[s]
\* is the number of permutations of the stage whose descending cycle-length
\* signature is s, and every such signature is a key.
C9_CycleTypeCounts ==
    (pc = "catalog_done") =>
        \A e \in 1..Len(cataloger.catalog) :
            LET entry == cataloger.catalog[e]
                perms == PermutationsOf(entry.stage)
            IN /\ DictKeys(entry.cycleTypeCounts) = {CycleType(p) : p \in perms}
               /\ Len(entry.cycleTypeCounts) = Cardinality(DictKeys(entry.cycleTypeCounts))
               /\ \A s \in DictKeys(entry.cycleTypeCounts) :
                     DictGet(entry.cycleTypeCounts, s)
                        = Cardinality({p \in perms : CycleType(p) = s})
               /\ entry.stage = 3 =>
                     /\ entry.order = 6
                     /\ DictItems(entry.cycleTypeCounts) =
                          {<<(<<"1", "-", "1", "-", "1">>), 1>>, <<(<<"2", "-", "1">>), 3>>,
                           <<(<<"3">>), 2>>}
                     /\ Len(entry.cycleTypeCounts) = 3
                     /\ DictItems(entry.parityCounts) = {<<"even", 3>>, <<"odd", 3>>}
                     /\ Len(entry.parityCounts) = 2

\* The catalog holds the entry of stage 3.
C9_Witness ==
    /\ pc = "catalog_done"
    /\ \E e \in 1..Len(cataloger.catalog) :
          cataloger.catalog[e].stage = 3 /\ Len(cataloger.catalog[e].cycleTypeSamples) = 3

(***************************************************************************)
(* Properties of parse_peal_file and build_change_ringing_library          *)
(* (SpecLibrary).                                                          *)
(***************************************************************************)
\* The row is a string of `stage` digits that holds each of 0..stage-1 once.
ValidRow(row, stage) ==
    /\ Len(row) = stage
    /\ \A i \in 1..Len(row) : IsDigitChar(row[i])
    /\ IsPermutation([i \in 1..Len(row) |-> CharToInt(row[i])])

\* Every row of the file is a valid row of the stage its first row sets.
WellFormedPeal(file) ==
    /\ Len(file.rows) > 0
    /\ \A k \in 1..Len(file.rows) : ValidRow(file.rows[k], Len(file.rows[1]))

\* C10: malformed rows are rejected before analysis. A file with a row that is
\* no permutation of 0..stage-1 (wrong length, repeated or out-of-range value)
\* or with rows of different lengths is never analysed to the end: no
\* structure is produced for it.
C10_MalformedRejected ==
    (~WellFormedPeal(library.file)) =>
        (pc # "library_done" /\ library.structures = <<>>)

(***************************************************************************)
(* Properties of build_permutation_families (SpecFamilies).                *)
(***************************************************************************)
\* What C6 compares of a family list: tuple, count and stages of each family.
FamilyView(family_list) ==
    {[positionPermutation |-> family_list[k].positionPermutation,
      occurrenceCount |-> family_list[k].occurrenceCount,
      stages |-> family_list[k].stages] : k \in 1..Len(family_list)}

\* The list `structures` in the order given by the permutation sigma.
Reordered(structures, sigma) == [k \in 1..Len(structures) |-> At(structures, sigma[k])]

\* C6: family aggregation is order-independent. Whatever the order of the
\* structures, build_permutation_families yields the same families (tuples),
\* each with the same occurrenceCount and the same stages list, and as many.
C6_OrderIndependent ==
    (pc = "families_done") =>
        \A sigma \in PermutationsOf(Len(aggregator.structures)) :
            LET other == build_permutation_families(Reordered(aggregator.structures, sigma))
            IN /\ FamilyView(other) = FamilyView(aggregator.family_list)
               /\ Len(other) = Len(aggregator.family_list)

\* Two structures that share a tuple with different counts, and one more tuple.
C6_Witness ==
    /\ pc = "families_done"
    /\ Len(aggregator.structures) = 2
    /\ Len(aggregator.family_list) >= 2
    /\ \E k \in 1..Len(aggregator.family_list) :
          LET prov == aggregator.family_list[k].structures IN
          /\ Len(prov) = 2
          /\ prov[1].count # prov[2].count

\* The (structure, entry) index pairs of the input that hold the tuple.
Contributions(structures, tuple) ==
    {se \in UNION {{<<si, ei>> :
                      ei \in 1..Len(structures[si].summary.uniquePositionPermutations)} :
                   si \in 1..Len(structures)} :
       structures[se[1]].summary.uniquePositionPermutations[se[2]].permutation = tuple}

RECURSIVE SumCounts(_, _)
\* The sum of the count fields of the entries at the index pairs.
SumCounts(structures, pairs) ==
    IF pairs = {} THEN 0
    ELSE LET se == CHOOSE x \in pairs : TRUE IN
         structures[se[1]].summary.uniquePositionPermutations[se[2]].count
         + SumCounts(structures, pairs \ {se})

RECURSIVE SumProvenance(_)
SumProvenance(records) ==
    IF Len(records) = 0 THEN 0 ELSE records[1].count + SumProvenance(Tail(records))

\* C7: the result holds exactly one family per distinct tuple of the input; a
\* family's occurrenceCount is the sum of the counts of the input entries with
\* its tuple, its stages the ascending duplicate-free list of the stages of the
\* structures that hold the tuple, and its provenance one (id, stage, count)
\* record per contributing entry, whose counts sum to occurrenceCount.
C7_OneFamilyPerTuple ==
    (pc = "families_done") =>
        LET structures == aggregator.structures
            result == aggregator.family_list
            tuples == {structures[si].summary.uniquePositionPermutations[ei].permutation :
                         <<si, ei>> \in UNION {{<<si, ei>> :
                            ei \in 1..Len(structures[si].summary.uniquePositionPermutations)} :
                            si \in 1..Len(structures)}}
        IN /\ {result[k].positionPermutation : k \in 1..Len(result)} = tuples
           /\ Len(result) = Cardinality(tuples)
           /\ \A k \in 1..Len(result) :
                 LET family == result[k]
                     from == Contributions(structures, family.positionPermutation)
                 IN /\ family.occurrenceCount = SumCounts(structures, from)
                    /\ family.stages = SortedInts({structures[se[1]].stage : se \in from})
                    /\ \A i \in 1..(Len(family.stages) - 1) :
                          family.stages[i] < family.stages[i + 1]
                    /\ Len(family.structures) = Cardinality(from)
                    /\ \A se \in from :
                          \E r \in 1..Len(family.structures) :
                             family.structures[r] =
                               [id |-> structures[se[1]].id,
                                stage |-> structures[se[1]].stage,
                                count |-> structures[se[1]].summary
                                            .uniquePositionPermutations[se[2]].count]
                    /\ family.occurrenceCount = SumProvenance(family.structures)

\* A family fed by two structures of different stages, the larger stage
\* first, with three occurrences in all.
C7_Witness ==
    /\ pc = "families_done"
    /\ \E k \in 1..Len(aggregator.family_list) :
          LET family == aggregator.family_list[k] IN
          /\ family.occurrenceCount = 3
          /\ Len(family.stages) = 2
          /\ Len(family.structures) = 2
          /\ family.structures[1].stage > family.structures[2].stage

(***************************************************************************)
(* Error handling of classify_transition (SpecTransition).                 *)
(***************************************************************************)
\* How often bell b stands in the row.
BellCount(row, b) == Cardinality({i \in 1..Len(row) : row[i] = b})

\* The two rows hold the same multiset of bells.
SameBells(a, b) ==
    \A v \in {a[i] : i \in 1..Len(a)} \cup {b[i] : i \in 1..Len(b)} :
        BellCount(a, v) = BellCount(b, v)

\* C11: classify_transition fails, returning no result, whenever the before
\* and after rows have unequal length or hold different multisets of bells.
C11_MismatchRejected ==
    (/\ pc = "transition_done"
     /\ \/ Len(classifier.prev_perm) # Len(classifier.next_perm)
        \/ ~SameBells(classifier.prev_perm, classifier.next_perm))
    => classifier.transition.error # "none"

(***************************************************************************)
(* Error handling of build_symmetric_group_catalog (SpecCatalog).          *)
(***************************************************************************)
\* C12: a stage above a configured practical bound is refused before any of
\* its permutations is enumerated: for some bound within the stages that are
\* asked for, no permutation of a stage above it is ever enumerated and no
\* entry of such a stage is ever put in the catalog.
C12_ScopeLimitRefused ==
    \E bound \in 0..(MaxCatalogStage - 1) :
        /\ cataloger.stage > bound => cataloger.enumerated = 0
        /\ \A e \in 1..Len(cataloger.catalog) : cataloger.catalog[e].stage <= bound

(***************************************************************************)
(* Properties of the sequence summary (SpecLibrary).                       *)
(***************************************************************************)
\* The stage comment of the file, if it is a number, is the length of row.
StageCommentAgrees(file, row) ==
    file.stage_meta.kind = "int" => file.stage_meta.value = Len(row)

\* The file holds one row, a valid one.
SingleValidRow(file) ==
    /\ Len(file.rows) = 1
    /\ ValidRow(file.rows[1], Len(file.rows[1]))
    /\ StageCommentAgrees(file, file.rows[1])

\* C13: a sequence of a single valid row is analysed without error and has
\* no transition; transitionParityCounts is {even: 0, odd: 0},
\* movementHistogram {up: 0, down: 0, stay: 0}, distanceHistogram,
\* swapPairHistogram and uniquePositionPermutations are empty and
\* adjacentOnly is true.
C13_SingleRowDefaults ==
    SingleValidRow(library.file) =>
        /\ pc # "library_error"
        /\ pc = "library_done" =>
              /\ Len(library.structures) = 1
              /\ LET s == library.structures[1] IN
                 /\ s.rows = 1
                 /\ Len(s.rowsDetail) = 1
                 /\ s.transitions = <<>>
                 /\ s.summary.transitionParityCounts =
                       <<[key |-> "even", value |-> 0], [key |-> "odd", value |-> 0]>>
                 /\ s.summary.movementHistogram =
                       <<[key |-> "up", value |-> 0], [key |-> "down", value |-> 0],
                         [key |-> "stay", value |-> 0]>>
                 /\ s.summary.distanceHistogram = <<>>
                 /\ s.summary.swapPairHistogram = <<>>
                 /\ s.summary.uniquePositionPermutations = <<>>
                 /\ s.summary.adjacentOnly = TRUE

\* The one row 201 of a file has been analysed to the end.
C13_Witness ==
    /\ pc = "library_done"
    /\ library.file.rows = <<(<<"2", "0", "1">>)>>
    /\ Len(library.structures) = 1
    /\ library.structures[1].stage = 3

RECURSIVE SumEntryCounts(_)
\* The sum of the counts of the entries.
SumEntryCounts(entries) ==
    IF Len(entries) = 0 THEN 0
    ELSE entries[Len(entries)].count + SumEntryCounts(SubSeq(entries, 1, Len(entries) - 1))

\* One entry per distinct positionPermutation of the transitions, counted.
CountsTransitions(entries, transitions) ==
    /\ \A j, k \in 1..Len(entries) :
          entries[j].permutation = entries[k].permutation => j = k
    /\ {entries[k].permutation : k \in 1..Len(entries)}
          = {transitions[t].result.positionPermutation : t \in 1..Len(transitions)}
    /\ \A k \in 1..Len(entries) :
          entries[k].count =
            Cardinality({t \in 1..Len(transitions) :
                           transitions[t].result.positionPermutation = entries[k].permutation})
    /\ SumEntryCounts(entries) = Len(transitions)

\* C14: uniquePositionPermutations holds one entry per distinct
\* positionPermutation tuple of the sequence's transitions, whose count is the
\* number of transitions with that tuple; after every processed transition
\* the counts sum to the number of transitions processed so far; the summary
\* of the structure holds these entries.
C14_UniquePositionPermutations ==
    /\ pc \in {"library_rows", "library_transitions", "library_done"} =>
          CountsTransitions(library.unique_position_perms, library.transitions)
    /\ pc = "library_done" =>
          /\ library.structures[1].transitions = library.transitions
          /\ CountsTransitions(library.structures[1].summary.uniquePositionPermutations,
                               library.structures[1].transitions)

\* A structure with two transitions of cycle signature 2-1 and different
\* tuples, each in an entry of its own.
C14_Witness ==
    /\ pc = "library_done"
    /\ LET u == library.structures[1].summary.uniquePositionPermutations IN
       /\ Len(u) = 2
       /\ u[1].cycleSignature = <<"2", "-", "1">>
       /\ u[2].cycleSignature = <<"2", "-", "1">>
       /\ u[1].permutation # u[2].permutation

InversionPairs(p) ==
    Cardinality({ij \in (1..Len(p)) \X (1..Len(p)) : ij[1] < ij[2] /\ p[ij[1]] > p[ij[2]]})

\* The generator g describes its own permutation.
DescribesItself(g) ==
    /\ g.cycles = permutation_cycles(g.permutation).cycles
    /\ \A i \in 0..(Len(g.permutation) - 1) : Occurrences(g.cycles, i) = 1
    /\ g.cycleSignature = CycleType(g.permutation)
    /\ g.parity = (IF InversionPairs(g.permutation) % 2 = 0 THEN "even" ELSE "odd")
    /\ g.sign = (IF g.parity = "even" THEN 1 ELSE -1)

\* C16: for every stage n the canonicalGenerators of the catalog entry are, in
\* this order, the identity, the transposition of i and i+1 for each i in
\* 0..n-2, the long cycle [1, 2, ..., n-1, 0] iff n > 2 and the reversal
\* [n-1, ..., 0] iff n > 1; each carries the cycles, cycleSignature, parity
\* and sign of its own permutation.
C16_CanonicalGenerators ==
    (pc = "catalog_done") =>
        \A e \in 1..Len(cataloger.catalog) :
            LET n == cataloger.catalog[e].stage
                g == cataloger.catalog[e].canonicalGenerators
                swaps == IF n > 1 THEN n - 1 ELSE 0
            IN /\ Len(g) = 1 + swaps + (IF n > 2 THEN 1 ELSE 0) + (IF n > 1 THEN 1 ELSE 0)
               /\ \A k \in 1..Len(g) : Len(g[k].permutation) = n /\ DescribesItself(g[k])
               /\ \A i \in 0..(n - 1) : At(g[1].permutation, i) = i
               /\ g[1].label = <<"i", "d", "e", "n", "t", "i", "t", "y">>
               /\ \A i \in 0..(n - 2) :
                     /\ At(g[i + 2].permutation, i) = i + 1
                     /\ At(g[i + 2].permutation, i + 1) = i
                     /\ \A j \in 0..(n - 1) \ {i, i + 1} : At(g[i + 2].permutation, j) = j
               /\ n > 2 =>
                     /\ g[n + 1].label = <<"l", "o", "n", "g", "_", "c", "y", "c", "l", "e">>
                     /\ \A i \in 0..(n - 2) : At(g[n + 1].permutation, i) = i + 1
                     /\ At(g[n + 1].permutation, n - 1) = 0
               /\ n > 1 =>
                     /\ g[Len(g)].label = <<"r", "e", "v", "e", "r", "s", "e">>
                     /\ \A i \in 0..(n - 1) : At(g[Len(g)].permutation, i) = n - 1 - i

\* The returned catalog holds the entries of stage 2 (no long cycle) and of
\* stage 4 (identity, three transpositions, long cycle, reversal).
C16_Witness ==
    /\ pc = "catalog_done"
    /\ \E e \in 1..Len(cataloger.catalog) :
          /\ cataloger.catalog[e].stage = 2
          /\ Len(cataloger.catalog[e].canonicalGenerators) = 3
    /\ \E e \in 1..Len(cataloger.catalog) :
          /\ cataloger.catalog[e].stage = 4
          /\ Len(cataloger.catalog[e].canonicalGenerators) = 6

\* The tuple p comes before q in the order of itertools.permutations.
LexLess(p, q) ==
    \E i \in 1..Len(p) : p[i] < q[i] /\ \A j \in 1..(i - 1) : p[j] = q[j]

\* The list a is the start of the list b.
IsPrefix(a, b) == Len(a) <= Len(b) /\ \A k \in 1..Len(a) : a[k] = b[k]

\* samples are the first `kept` permutations of `stage` with the signature,
\* in lexicographic order.
FirstWithSignature(samples, stage, signature, kept) ==
    LET with_signature == {p \in PermutationsOf(stage) : CycleType(p) = signature} IN
    /\ Len(samples) = kept
    /\ \A k \in 1..Len(samples) : samples[k].permutation \in with_signature
    /\ \A k \in 1..(Len(samples) - 1) :
          LexLess(samples[k].permutation, samples[k + 1].permutation)
    /\ \A p \in with_signature :
          \/ \E k \in 1..Len(samples) : samples[k].permutation = p
          \/ \A k \in 1..Len(samples) : LexLess(samples[k].permutation, p)

\* A step of the enumeration of one stage keeps every sample list as it is
\* or appends the permutation just enumerated to the list of its signature,
\* which it does whenever that list is short of samples_per_cycle.
SamplesStep ==
    (pc = "catalog_enumerate" /\ pc' = "catalog_enumerate") =>
        LET old == cataloger.cycle_samples
            new == cataloger'.cycle_samples
            perm == cataloger.iterator.perm_tuple
            limit == cataloger.samples_per_cycle
        IN /\ \A signature \in DictKeys(old) :
                 /\ signature \in DictKeys(new)
                 /\ IsPrefix(DictGet(old, signature), DictGet(new, signature))
                 /\ Len(DictGet(old, signature)) = limit =>
                       DictGet(new, signature) = DictGet(old, signature)
           /\ \A signature \in DictKeys(new) :
                 LET before == IF signature \in DictKeys(old)
                               THEN DictGet(old, signature) ELSE <<>>
                     after == DictGet(new, signature)
                 IN /\ Len(after) <= limit
                    /\ Len(after) <= Len(before) + 1
                    /\ Len(after) = Len(before) + 1 =>
                          /\ after[Len(after)].permutation = perm
                          /\ CycleType(perm) = signature
                    /\ (CycleType(perm) = signature /\ Len(before) < limit) =>
                          Len(after) = Len(before) + 1

\* The sample lists of the returned catalog.
SamplesFinal ==
    (pc = "catalog_done") =>
        \A e \in 1..Len(cataloger.catalog) :
            LET entry == cataloger.catalog[e] IN
            \A k \in 1..Len(entry.cycleTypeSamples) :
                LET s == entry.cycleTypeSamples[k]
                    count == DictGet(entry.cycleTypeCounts, s.cycleSignature)
                IN FirstWithSignature(s.samples, entry.stage, s.cycleSignature,
                                      Min2(cataloger.samples_per_cycle, count))

\* C17: sample retention is first-seen-first-kept. During the enumeration of
\* S_n the sample list of a signature is append-only, never longer than
\* samples_per_cycle and unchanged once full; in the returned catalog it
\* holds the first min(samples_per_cycle, cycleTypeCounts[signature])
\* permutations with that signature in lexicographic order.
C17_SampleRetention == [][SamplesStep]_vars /\ []SamplesFinal

\* With samples_per_cycle = 2 the entry of stage 4 keeps two of the six
\* permutations of signature 2-1-1 and the only one of signature 1-1-1-1.
C17_Witness ==
    /\ pc = "catalog_done"
    /\ cataloger.samples_per_cycle = 2
    /\ \E e \in 1..Len(cataloger.catalog) :
          LET entry == cataloger.catalog[e] IN
          /\ entry.stage = 4
          /\ \E k \in 1..Len(entry.cycleTypeSamples) :
                /\ entry.cycleTypeSamples[k].cycleSignature = <<"2", "-", "1", "-", "1">>
                /\ entry.cycleTypeSamples[k].count = 6
                /\ Len(entry.cycleTypeSamples[k].samples) = 2
          /\ \E k \in 1..Len(entry.cycleTypeSamples) :
                /\ entry.cycleTypeSamples[k].count = 1
                /\ Len(entry.cycleTypeSamples[k].samples) = 1

(***************************************************************************)
(* Order of the cycles of permutation_cycles (SpecPerm).                   *)
(***************************************************************************)
\* C18: permutation_cycles lists the cycles of a permutation in strictly
\* increasing order of their first elements; the first element of a cycle is
\* its smallest index and the others follow as the permutation is applied
\* again and again from the first.
C18_CanonicalCycleOrder ==
    (pc = "perm_done" /\ IsPermutation(analyzer.perm)) =>
        LET p == analyzer.perm
            cycles == analyzer.walk.cycles
        IN /\ analyzer.walk.error = "none"
           /\ \A c \in 1..Len(cycles) :
                 /\ Len(cycles[c]) >= 1
                 /\ \A k \in 1..Len(cycles[c]) :
                       /\ cycles[c][k] = Iterate(p, cycles[c][1], k - 1)
                       /\ k > 1 => cycles[c][1] < cycles[c][k]
           /\ \A c \in 1..(Len(cycles) - 1) : cycles[c][1] < cycles[c + 1][1]

\* The cycles [0, 2, 1] and [3] of the permutation [2, 0, 1, 3] were computed.
C18_Witness ==
    /\ pc = "perm_done"
    /\ analyzer.perm = <<2, 0, 1, 3>>
    /\ analyzer.walk.cycles = <<(<<0, 2, 1>>), (<<3>>)>>

(***************************************************************************)
(* Movement and parity accounting of a sequence (SpecLibrary).             *)
(***************************************************************************)
\* The movement records of all transitions, as <<transition, position>>.
MovementRecords(transitions) ==
    UNION {{<<t, k>> : k \in 1..Len(transitions[t].result.movements)} :
             t \in 1..Len(transitions)}

\* The counter holds, for every key, the number of records that `keyed`
\* puts under the key, and no key without a record except those of `fixed`.
CountsRecords(counter, records, keyed(_), fixed) ==
    /\ Len(counter) = Cardinality(DictKeys(counter))
    /\ DictKeys(counter) = fixed \cup {keyed(r) : r \in records}
    /\ \A key \in DictKeys(counter) :
          DictGet(counter, key) = Cardinality({r \in records : keyed(r) = key})

\* The records of one transition are accounted for in its two counters.
TransitionAccounted(transition, stage) ==
    LET t == transition.result
        records == {<<1, k>> : k \in 1..Len(t.movements)}
        direction(r) == t.movements[r[2]].direction
        distance(r) == IntToStr(t.movements[r[2]].distance)
    IN /\ \A k \in 1..Len(t.movements) :
             LET m == t.movements[k] IN
             /\ m.distance = m.to - m.from
             /\ m.direction = (IF m.distance = 0 THEN "stay"
                               ELSE IF m.distance < 0 THEN "up" ELSE "down")
       /\ CountsRecords(t.movementCounts, records, direction, {"up", "down", "stay"})
       /\ CountsRecords(t.distanceCounts, records, distance, {})
       /\ SumValues(t.movementCounts) = stage
       /\ SumValues(t.distanceCounts) = stage

\* The records of all transitions are accounted for in the two histograms.
SequenceAccounted(s) ==
    LET records == MovementRecords(s.transitions)
        direction(r) == s.transitions[r[1]].result.movements[r[2]].direction
        distance(r) == IntToStr(s.transitions[r[1]].result.movements[r[2]].distance)
    IN /\ \A t \in 1..Len(s.transitions) : TransitionAccounted(s.transitions[t], s.stage)
       /\ CountsRecords(s.summary.movementHistogram, records, direction,
                        {"up", "down", "stay"})
       /\ CountsRecords(s.summary.distanceHistogram, records, distance, {})
       /\ SumValues(s.summary.movementHistogram) = s.stage * Len(s.transitions)
       /\ SumValues(s.summary.distanceHistogram) = s.stage * Len(s.transitions)

\* C19: every movement record has distance = to - from and the direction of
\* its sign (stay, up if negative, down if positive); movementCounts and
\* distanceCounts of a transition each total the stage; movementHistogram and
\* distanceHistogram of the summary each total stage times the number of
\* transitions, each bucket being the number of movement records with that
\* direction or signed distance.
C19_MovementAccounting ==
    (pc = "library_done") => SequenceAccounted(library.structures[1])

\* The same for the files whose rows are all valid rows of one stage.
MovementAccountingOfValidRows ==
    (pc = "library_done" /\ WellFormedPeal(library.file)) =>
        SequenceAccounted(library.structures[1])

\* A parity counter holds exactly the keys even and odd and totals `total`.
ParityCounts(counter, total) ==
    /\ Len(counter) = 2
    /\ DictKeys(counter) = {"even", "odd"}
    /\ DictGet(counter, "even") \in 0..total
    /\ DictGet(counter, "even") + DictGet(counter, "odd") = total

\* The two counters of the finished summary and of the loops that fill them.
ParityCountersTotal ==
    /\ pc \in {"library_rows", "library_transitions", "library_done"} =>
          /\ ParityCounts(library.row_parity_counts, Len(library.row_details))
          /\ ParityCounts(library.transition_parity_counts, Len(library.transitions))
    /\ pc = "library_done" =>
          LET s == library.structures[1] IN
          /\ ParityCounts(s.summary.rowParityCounts, s.rows)
          /\ ParityCounts(s.summary.transitionParityCounts, s.rows - 1)

\* A step that analyses a row leaves the transition counter alone, and a
\* step that analyses a transition leaves the row counter alone.
ParityCountersIndependent ==
    /\ library.row_details' # library.row_details =>
          library.transition_parity_counts' = library.transition_parity_counts
    /\ library.transitions' # library.transitions =>
          library.row_parity_counts' = library.row_parity_counts
    /\ library.row_parity_counts' # library.row_parity_counts =>
          library.row_details' # library.row_details
    /\ library.transition_parity_counts' # library.transition_parity_counts =>
          library.transitions' # library.transitions

\* C20: in every sequence summary rowParityCounts and transitionParityCounts
\* each hold both keys even and odd (0 when nothing of that parity occurred),
\* rowParityCounts totals the number of rows and transitionParityCounts the
\* number of rows minus one, and the two counters are updated independently:
\* a row never changes the transition counter and a transition never changes
\* the row counter.
C20_ParityCounters ==
    []ParityCountersTotal /\ [][ParityCountersIndependent]_vars

\* The rows 01, 10, 01: two even rows and one odd row, two odd transitions
\* and no even one.
C20_Witness ==
    /\ pc = "library_done"
    /\ library.structures[1].rows = 3
    /\ library.structures[1].summary.rowParityCounts =
          <<[key |-> "even", value |-> 2], [key |-> "odd", value |-> 1]>>
    /\ library.structures[1].summary.transitionParityCounts =
          <<[key |-> "even", value |-> 0], [key |-> "odd", value |-> 2]>>

(***************************************************************************)
(* The global adjacentOnly flag of a sequence (SpecLibrary).               *)
(***************************************************************************)
\* The flag says that all transitions analysed so far are adjacentOnly.
AdjacentFlagIsConjunction ==
    /\ pc \in {"library_rows", "library_transitions", "library_done"} =>
          (library.adjacent_only_global <=>
             \A t \in 1..Len(library.transitions) :
                library.transitions[t].result.adjacentOnly)
    /\ pc = "library_done" =>
          LET s == library.structures[1] IN
          s.summary.adjacentOnly <=>
             \A t \in 1..Len(s.transitions) : s.transitions[t].result.adjacentOnly

\* A flag that is false is false after the step.
AdjacentFlagStaysFalse ==
    (~library.adjacent_only_global) => ~library.adjacent_only_global'

\* C21: the adjacentOnly flag of the summary is true if and only if every
\* transition of the sequence has adjacentOnly true, and once a transition
\* that is not adjacentOnly has been processed the flag stays false for the
\* rest of the sequence.
C21_GlobalAdjacentOnly ==
    []AdjacentFlagIsConjunction /\ [][AdjacentFlagStaysFalse]_vars

\* The rows 012, 210, 201: the first transition moves bells two places, the
\* second only exchanges neighbours, and the flag of the summary is false.
C21_Witness ==
    /\ pc = "library_done"
    /\ Len(library.structures[1].transitions) = 2
    /\ ~library.structures[1].transitions[1].result.adjacentOnly
    /\ library.structures[1].transitions[2].result.adjacentOnly
    /\ ~library.structures[1].summary.adjacentOnly

(***************************************************************************)
(* The order of the families returned (SpecFamilies, SpecHighStage).       *)
(***************************************************************************)
\* a <= b for Python strings.
StrLeq(a, b) == a = b \/ StrLess(a, b)

\* (cycleSignature, id) of a <= (cycleSignature, id) of b for Python tuples.
SortKeyLeq(a, b) ==
    IF a.cycleSignature # b.cycleSignature
    THEN StrLess(a.cycleSignature, b.cycleSignature)
    ELSE StrLeq(a.id, b.id)

\* The list is in non-decreasing order of (cycleSignature, id).
FamiliesSortedByKey ==
    (pc = "families_done") =>
        \A i, j \in 1..Len(aggregator.family_list) :
            i < j => SortKeyLeq(aggregator.family_list[i], aggregator.family_list[j])

\* C22: the list build_permutation_families returns is in non-decreasing
\* order of the pair (cycleSignature, id) under string comparison, so that
\* the order of the families returned is the same for every order in which
\* the structures are supplied.
C22_FamiliesSorted ==
    (pc = "families_done") =>
        LET result == aggregator.family_list IN
        /\ \A i, j \in 1..Len(result) : i < j => SortKeyLeq(result[i], result[j])
        /\ \A sigma \in PermutationsOf(Len(aggregator.structures)) :
              LET other == build_permutation_families(
                             Reordered(aggregator.structures, sigma))
              IN [k \in 1..Len(other) |-> other[k].positionPermutation]
                 = [k \in 1..Len(result) |-> result[k].positionPermutation]

(***************************************************************************)
(* Family ids at stages with two-digit places (SpecHighStage).             *)
(***************************************************************************)
\* No two families of the list with different tuples share an id.
IdsTellTuplesApart(families) ==
    \A i, j \in 1..Len(families) :
        families[i].positionPermutation # families[j].positionPermutation =>
            families[i].id # families[j].id

\* C27: family ids are injective: two families with different
\* position-permutation tuples never get the same id, the string perm_
\* followed by the decimal values, also at stages of 11 and more where a
\* value has two decimal digits.
C27_FamilyIdsInjective ==
    /\ IdsTellTuplesApart(aggregator.families)
    /\ IdsTellTuplesApart(aggregator.family_list)

(***************************************************************************)
(* A transition whose after row lacks a bell (SpecLibrary).                *)
(***************************************************************************)
\* Some bell of the before row is not in the after row.
LacksBell(prev_perm, next_perm) ==
    \E i \in 1..Len(prev_perm) :
        \A j \in 1..Len(next_perm) : next_perm[j] # prev_perm[i]

\* The next transition of the loop has an after row that lacks a bell.
BadTransitionNext ==
    /\ pc = "library_transitions"
    /\ Len(library.transitions) < Len(library.row_details) - 1
    /\ LacksBell(At(library.row_details, Len(library.transitions)).permutation,
                 At(library.row_details, Len(library.transitions) + 1).permutation)

\* The step from such a state: the lookup fails, no record is returned, the
\* error leaves the analysis and nothing of the transition is counted.
BadTransitionStep ==
    BadTransitionNext =>
        /\ classify_transition(
             At(library.row_details, Len(library.transitions)).permutation,
             At(library.row_details, Len(library.transitions) + 1).permutation)
           = [error |-> "ValueError"]
        /\ pc' = "library_error"
        /\ library'.error = "ValueError"
        /\ library'.structures = <<>>
        /\ library'.transitions = library.transitions
        /\ library'.transition_parity_counts = library.transition_parity_counts
        /\ library'.movement_hist = library.movement_hist
        /\ library'.distance_hist = library.distance_hist
        /\ library'.swap_hist = library.swap_hist
        /\ library'.unique_position_perms = library.unique_position_perms
        /\ library'.adjacent_only_global = library.adjacent_only_global

\* C23: whenever the after row lacks a bell of the before row,
\* classify_transition ends with the error of the failed position lookup and
\* returns no partial record; the error leaves the sequence analysis, so that
\* no structure is made of the sequence and none of its summary counts takes
\* up the bad transition.
C23_MissingBellPropagates ==
    /\ [][BadTransitionStep]_vars
    /\ [](pc = "library_error" => library.structures = <<>>)
    /\ [](pc = "library_done" =>
            \A t \in 1..Len(library.transitions) :
               ~LacksBell(At(library.row_details, t - 1).permutation,
                          At(library.row_details, t).permutation))

\* The rows 01, 10, 00: the first transition is counted, the second lacks
\* bell 1 and ends the analysis.
C23_Witness ==
    /\ pc = "library_error"
    /\ library.error = "ValueError"
    /\ Len(library.row_details) = 3
    /\ Len(library.transitions) = 1
    /\ LacksBell(At(library.row_details, 1).permutation,
                 At(library.row_details, 2).permutation)

(***************************************************************************)
(* Family records during the aggregation (SpecFamilies).                   *)
(***************************************************************************)
\* The fields of a family that are set when it is created.
SameIdentity(a, b) ==
    /\ a.id = b.id
    /\ a.positionPermutation = b.positionPermutation
    /\ a.cycles = b.cycles
    /\ a.cycleSignature = b.cycleSignature
    /\ a.parity = b.parity
    /\ a.sign = b.sign
    /\ a.swapPairs = b.swapPairs
    /\ a.adjacentOnly = b.adjacentOnly

\* A step of the loops keeps every family in its place and only adds to it.
FamiliesGrow ==
    /\ Len(aggregator'.families) >= Len(aggregator.families)
    /\ \A k \in 1..Len(aggregator.families) :
          LET a == aggregator.families[k]
              b == aggregator'.families[k]
          IN /\ SameIdentity(a, b)
             /\ a.occurrenceCount <= b.occurrenceCount
             /\ a.stages \subseteq b.stages
             /\ IsPrefix(a.structures, b.structures)

\* The last step hands every family on as it is, its stages as a list.
FamiliesHandedOn ==
    (pc' = "families_done") =>
        /\ Len(aggregator'.family_list) = Len(aggregator.families)
        /\ \A k \in 1..Len(aggregator.families) :
              LET a == aggregator.families[k] IN
              \E j \in 1..Len(aggregator'.family_list) :
                 LET b == aggregator'.family_list[j] IN
                 /\ SameIdentity(a, b)
                 /\ b.occurrenceCount = a.occurrenceCount
                 /\ {b.stages[i] : i \in 1..Len(b.stages)} = a.stages
                 /\ b.structures = a.structures

\* C24: during the aggregation a family changes only monotonically after its
\* creation: at every step its occurrenceCount never decreases, its stages
\* only gain elements, its provenance list only gains appended records, and
\* its id, positionPermutation, cycles, cycleSignature, parity, sign,
\* swapPairs and adjacentOnly never change; the input structures are left
\* unchanged.
C24_FamiliesMonotone ==
    [][/\ FamiliesGrow
       /\ FamiliesHandedOn
       /\ aggregator'.structures = aggregator.structures]_vars

\* A family that has been fed a second time, from a structure of another
\* stage, while the loops are still running.
C24_Witness ==
    /\ pc = "families_loop"
    /\ \E k \in 1..Len(aggregator.families) :
          LET family == aggregator.families[k] IN
          /\ Len(family.structures) = 2
          /\ family.occurrenceCount >= 3
          /\ Cardinality(family.stages) = 2

(***************************************************************************)
(* Sign, adjacency and permutation shape of a transition (SpecTransition). *)
(***************************************************************************)
\* C25: for rows A, B that are permutations of the same stage the sign of the
\* transition is the product of the signs of the two rows, that is, the
\* transition is even iff A and B have the same parity.
C25_SignIsProduct ==
    ClassifiedPermutations =>
        LET t == classifier.transition
            parityA == permutation_parity(classifier.prev_perm)
            parityB == permutation_parity(classifier.next_perm)
        IN /\ t.error = "none"
           /\ t.sign = permutation_sign(parityA) * permutation_sign(parityB)
           /\ t.sign = permutation_sign(t.parity)
           /\ (t.parity = "even") <=> (parityA = parityB)
           /\ (InversionPairs(classifier.prev_perm) % 2 = 0)
                 <=> (parityA = "even")

\* Two different odd rows of stage 3 with an even transition between them.
C25_Witness ==
    /\ ClassifiedPermutations
    /\ classifier.prev_perm = <<1, 0, 2>>
    /\ classifier.next_perm = <<0, 2, 1>>
    /\ classifier.transition.parity = "even"
    /\ classifier.transition.sign = 1

\* C26: for rows A, B that are permutations of the same stage, if adjacentOnly
\* is true then positionPermutation is a product of disjoint adjacent
\* transpositions: every cycle has length 1 or 2, every swap pair [i, j] has
\* j = i + 1, and movementCounts has up = down = the number of swap pairs and
\* stay = stage minus twice that number.
C26_AdjacentOnlyShape ==
    (ClassifiedPermutations /\ classifier.transition.error = "none"
       /\ classifier.transition.adjacentOnly) =>
        LET t == classifier.transition
            pairs == Len(t.swapPairs)
        IN /\ \A c \in 1..Len(t.cycles) : Len(t.cycles[c]) \in {1, 2}
           /\ \A k \in 1..pairs : t.swapPairs[k][2] = t.swapPairs[k][1] + 1
           /\ \A c \in 1..Len(t.cycles) :
                 Len(t.cycles[c]) = 2 =>
                    \E k \in 1..pairs : t.swapPairs[k] = t.cycles[c]
           /\ {"up", "down", "stay"} \subseteq DictKeys(t.movementCounts)
           /\ DictGet(t.movementCounts, "up") = pairs
           /\ DictGet(t.movementCounts, "down") = pairs
           /\ DictGet(t.movementCounts, "stay") = Len(classifier.prev_perm) - 2 * pairs

\* 0123 to 1032: two pairs of neighbours change places and nothing stays.
C26_Witness ==
    /\ ClassifiedPermutations
    /\ classifier.transition.error = "none"
    /\ classifier.transition.adjacentOnly
    /\ Len(classifier.prev_perm) = 4
    /\ classifier.transition.swapPairs = <<(<<0, 1>>), (<<2, 3>>)>>

\* C29: for rows A, B that are permutations of the same stage n, both
\* positionPermutation and bellPermutation are permutations of 0..n-1 (each
\* value occurs exactly once in each), and positionPermutation is the identity
\* iff A = B.
C29_ResultsArePermutations ==
    ClassifiedPermutations =>
        LET t == classifier.transition
            n == Len(classifier.prev_perm)
        IN /\ t.error = "none"
           /\ Len(t.positionPermutation) = n
           /\ Len(t.bellPermutation) = n
           /\ \A v \in 0..(n - 1) :
                 /\ BellCount(t.positionPermutation, v) = 1
                 /\ BellCount(t.bellPermutation, v) = 1
           /\ (t.positionPermutation = RangeList(n))
                 <=> (classifier.prev_perm = classifier.next_perm)

\* A transition between two different rows neither of which is rounds: its
\* two permutations differ from each other and from the identity.
C29_Witness ==
    /\ ClassifiedPermutations
    /\ classifier.transition.error = "none"
    /\ Len(classifier.prev_perm) = 4
    /\ classifier.prev_perm # classifier.next_perm
    /\ classifier.transition.positionPermutation # classifier.transition.bellPermutation
    /\ classifier.transition.positionPermutation # <<0, 1, 2, 3>>
    /\ classifier.transition.bellPermutation # <<0, 1, 2, 3>>

(***************************************************************************)
(* The stages of a family (SpecFamilies).                                  *)
(***************************************************************************)
\* Every position permutation of the structure is as long as its stage, as
\* it is when all rows of the sequence are as long as the stage.
StageIsRowLength(structure) ==
    \A e \in 1..Len(structure.summary.uniquePositionPermutations) :
        Len(structure.summary.uniquePositionPermutations[e].permutation) = structure.stage

\* C28: for structures whose stage is the length of their rows, every family
\* returned has a stages list of exactly one element, the length of the
\* family's positionPermutation.
C28_SingleStageFamilies ==
    (/\ pc = "families_done"
     /\ \A k \in 1..Len(aggregator.structures) :
           StageIsRowLength(aggregator.structures[k]))
    => \A k \in 1..Len(aggregator.family_list) :
          aggregator.family_list[k].stages
            = <<Len(aggregator.family_list[k].positionPermutation)>>

\* Two structures of different stages, each with rows of its own stage only:
\* a family of each stage, and a family with more than one record.
C28_Witness ==
    /\ pc = "families_done"
    /\ Len(aggregator.structures) = 2
    /\ aggregator.structures[1].stage # aggregator.structures[2].stage
    /\ \A k \in 1..2 :
          /\ StageIsRowLength(aggregator.structures[k])
          /\ Len(aggregator.structures[k].summary.uniquePositionPermutations) >= 2
    /\ \E i, j \in 1..Len(aggregator.family_list) :
          aggregator.family_list[i].stages # aggregator.family_list[j].stages

(***************************************************************************)
(* permutation_cycles on sequences that are no permutations (SpecPerm).    *)
(***************************************************************************)
\* Every value of the sequence is one of its indices 0..n-1.
ValuesInRange(perm) == \A i \in 1..Len(perm) : perm[i] \in 0..(Len(perm) - 1)

\* C30: permutation_cycles ends on every finite sequence whose values all lie
\* in 0..n-1, also when values repeat: the inner loop runs exactly n times in
\* all, every index ends up in exactly one of the lists returned, and no
\* error is raised.
C30_CyclesOfAnySequence ==
    (pc = "perm_done" /\ ValuesInRange(analyzer.perm)) =>
        LET n == Len(analyzer.perm)
            walk == analyzer.walk
        IN /\ walk.error = "none"
           /\ walk.iterations = n
           /\ \A i \in 0..(n - 1) : Occurrences(walk.cycles, i) = 1
           /\ \A c \in 1..Len(walk.cycles) :
                 /\ Len(walk.cycles[c]) >= 1
                 /\ \A k \in 1..Len(walk.cycles[c]) : walk.cycles[c][k] \in 0..(n - 1)

\* The sequence 1, 1, 0 repeats the value 1: the walk from 0 stops when it
\* meets 1 again, and index 2 is left as a list of its own.
C30_Witness ==
    /\ pc = "perm_done"
    /\ analyzer.perm = <<1, 1, 0>>
    /\ ~IsPermutation(analyzer.perm)
    /\ analyzer.walk.cycles = <<(<<0, 1>>), (<<2>>)>>
    /\ analyzer.walk.iterations = 3

=============================================================================
